---- MODULE Spec2Model ----
(***************************************************************************)
(* Aerodrome booking engine (src/business.py, src/api/main.py, src/CRUD.py) *)
(*                                                                         *)
(* State: the Creneaux table of the SQLite database, its AUTOINCREMENT     *)
(* counter (seq), the Avion, Messagerie and Facture tables, the last HTTP   *)
(* exchange or call of a rule (last), and for each server process the      *)
(* position (pc) and the local variables (loc) of the request it is        *)
(* serving.                                                                *)
(*                                                                         *)
(* Conventions                                                             *)
(*  - a timestamp string is the triple <<day, hour, minute>> of its ISO    *)
(*    text, the day counted from 2026-01-01; datetime.fromisoformat turns  *)
(*    it into the number of minutes since that day at 00:00;               *)
(*  - money is an exact rational with the fixed denominator 1440*210       *)
(*    (the code uses a float): days/30, days/7 and days/1 of a whole       *)
(*    number of minutes are all multiples of 1/(1440*210);                 *)
(*  - columns debut_reel, fin_reel and avion_id of Creneaux are never read *)
(*    by a rule of the engine and are left out of the rows;                *)
(*  - every timestamp a body carries is well-formed ISO text, so           *)
(*    datetime.fromisoformat never raises.                                 *)
(***************************************************************************)
EXTENDS Integers, Sequences, FiniteSets, TLC

VARIABLES Creneaux, seq, last, pc, loc, Avion, Messagerie, Facture

vars == <<Creneaux, seq, last, pc, loc, Avion, Messagerie, Facture>>

-----------------------------------------------------------------------------
(* Bounds of the model *)

\* largest Id the AUTOINCREMENT counter of Creneaux hands out
MaxCreneaux == 2

-----------------------------------------------------------------------------
(* Values *)

\* Python None / SQL NULL of an Optional[int] or Optional[float] field
NULL == -1
\* an Optional field the request body does not mention (pydantic "unset")
UNSET == -2

\* bool(x) of an Optional[int]: None and 0 are falsy
truthy(x) == x # NULL /\ x # UNSET /\ x # 0

\* ISO text -> minutes
fromisoformat(s) == ((s[1] * 24) + s[2]) * 60 + s[3]
\* timedelta(minutes=90)
timedelta_minutes_90 == 90

\* Infrastructure rows (demo data), prices in currency units
Infrastructure ==
  { [Id |-> 1, prix_jour |-> 150, prix_semaine |-> 900, prix_mois |-> 3200],
    [Id |-> 2, prix_jour |-> 50,  prix_semaine |-> 300, prix_mois |-> 1000] }

\* Avitaillement rows (demo data), cout 343.42 in units of 1/(1440*210)
Avitaillement == { [Id |-> 1, cout |-> 34342 * 3024] }

\* Pilote rows (demo data)
Pilote == { [Id |-> 1], [Id |-> 2] }

\* Agent_d_exploitation rows (demo data)
Agent_d_exploitation == { [Id |-> 1], [Id |-> 2] }

\* Facture rows (demo data): the Id, the rib and the agent who issued it
FactureRows ==
  { [Id |-> 1, rib |-> "FR7630001007941234567890185", agent_id |-> 1],
    [Id |-> 2, rib |-> "FR7630001007941234567890186", agent_id |-> 2] }

\* Messagerie rows (demo data): the text, the agent and the pilote
MessagerieRows ==
  { [Id |-> 1, contenu |-> "Bonjour", agent_id |-> 1, pilote_id |-> 1],
    [Id |-> 2, contenu |-> "Bien reçu", agent_id |-> 1, pilote_id |-> 1] }

\* Avion rows (demo data): the registration, the model and the owner
AvionRows ==
  { [Immatriculation |-> "F-GHTY", modele |-> "172 Skyhawk", pilote_id |-> 1],
    [Immatriculation |-> "F-BPLN", modele |-> "PA-28 Archer", pilote_id |-> 2] }

\* the callers: the identity decoded from the token
Users ==
  { [id |-> 1, type |-> "pilote"],
    [id |-> 1, type |-> "agent"],
    [id |-> 1, type |-> "gestionnaire"] }

-----------------------------------------------------------------------------
(* CRUD.py: the generic store *)

\* WHERE c1 = ? AND c2 = ? ... ; a NULL parameter matches no row
matches(row, filters) ==
  \A c \in DOMAIN filters : filters[c] # NULL /\ row[c] = filters[c]

RECURSIVE rows_in_order(_)
\* the rows of a result set, in rowid order
rows_in_order(S) ==
  IF S = {} THEN <<>>
  ELSE LET first == CHOOSE r \in S : \A q \in S : r.Id <= q.Id
       IN  <<first>> \o rows_in_order(S \ {first})

\* DatabaseManager.select: list of the rows that match the filters
select(table, filters) ==
  rows_in_order({ r \in table : matches(r, filters) })

\* foreign keys of Creneaux, enforced because of PRAGMA foreign_keys = ON
foreign_keys_ok(row) ==
  /\ row.infrastructure_id = NULL \/ \E i \in Infrastructure : i.Id = row.infrastructure_id
  /\ row.avitaillement_id = NULL \/ \E a \in Avitaillement : a.Id = row.avitaillement_id
  /\ row.pilote_id = NULL \/ \E p \in Pilote : p.Id = row.pilote_id

\* SET c = ? for the columns of data
assign(row, data) ==
  [c \in DOMAIN row |-> IF c \in DOMAIN data THEN data[c] ELSE row[c]]

\* DatabaseManager.update: the table after UPDATE ... SET data WHERE filters
\* (an sqlite3.Error rolls back and leaves the table as it was)
update(table, data, filters) ==
  LET hit == { r \in table : matches(r, filters) }
      new == { assign(r, data) : r \in hit }
  IN  IF \A r \in new : foreign_keys_ok(r)
      THEN (table \ hit) \cup new
      ELSE table

\* rows_affected of DatabaseManager.update
update_rowcount(table, data, filters) ==
  LET hit == { r \in table : matches(r, filters) }
  IN  IF \A r \in hit : foreign_keys_ok(assign(r, data))
      THEN Cardinality(hit)
      ELSE 0

\* DatabaseManager.delete: the table after DELETE ... WHERE filters
delete(table, filters) == { r \in table : ~matches(r, filters) }

\* rows_affected of DatabaseManager.delete
delete_rowcount(table, filters) ==
  Cardinality({ r \in table : matches(r, filters) })

-----------------------------------------------------------------------------
(* business.py: the rules *)

RECURSIVE conflict_scan_without_exclusion(_, _, _, _, _)
\* conflict_scan with a fault: the excluded booking is compared like the others
conflict_scan_without_exclusion(all_creneaux, i, debut, fin, exclude_creneau_id) ==
  IF i > Len(all_creneaux) THEN [ok |-> TRUE, msg |-> <<>>]
  ELSE LET existing_debut == fromisoformat(all_creneaux[i].debut_prevu)
           existing_fin == fromisoformat(all_creneaux[i].fin_prevu)
       IN  IF (debut < existing_fin + 90) /\ (fin > existing_debut - 90)
           THEN [ok |-> FALSE, msg |-> <<"Time slot conflicts with an existing one">>]
           ELSE conflict_scan_without_exclusion(all_creneaux, i + 1, debut, fin,
                                                exclude_creneau_id)

RECURSIVE conflict_scan_of_open_bookings(_, _, _, _, _)
\* conflict_scan with a fault: cancelled and completed bookings are skipped
conflict_scan_of_open_bookings(all_creneaux, i, debut, fin, exclude_creneau_id) ==
  IF i > Len(all_creneaux) THEN [ok |-> TRUE, msg |-> <<>>]
  ELSE LET existing_creneau == all_creneaux[i]
           existing_debut == fromisoformat(existing_creneau.debut_prevu)
           existing_fin == fromisoformat(existing_creneau.fin_prevu)
       IN  IF \/ truthy(exclude_creneau_id) /\ existing_creneau.Id = exclude_creneau_id
              \/ existing_creneau.etat \in {"Annulé", "Achevé"}
           THEN conflict_scan_of_open_bookings(all_creneaux, i + 1, debut, fin,
                                               exclude_creneau_id)
           ELSE IF (debut < existing_fin + timedelta_minutes_90)
                   /\ (fin > existing_debut - timedelta_minutes_90)
                THEN [ok |-> FALSE, msg |-> <<"Time slot conflicts with an existing one">>]
                ELSE conflict_scan_of_open_bookings(all_creneaux, i + 1, debut, fin,
                                                    exclude_creneau_id)

RECURSIVE conflict_scan(_, _, _, _, _)
\* the for loop of validate_creneau_time_slot over all_creneaux[i..]
conflict_scan(all_creneaux, i, debut, fin, exclude_creneau_id) ==
  IF i > Len(all_creneaux) THEN [ok |-> TRUE, msg |-> <<>>]
  ELSE LET existing_creneau == all_creneaux[i]
           existing_debut == fromisoformat(existing_creneau.debut_prevu)
           existing_fin == fromisoformat(existing_creneau.fin_prevu)
       IN  IF truthy(exclude_creneau_id) /\ existing_creneau.Id = exclude_creneau_id
           THEN conflict_scan(all_creneaux, i + 1, debut, fin, exclude_creneau_id)
           ELSE IF (debut < existing_fin + timedelta_minutes_90)
                   /\ (fin > existing_debut - timedelta_minutes_90)
                THEN [ok |-> FALSE, msg |-> <<"Time slot conflicts with an existing one">>]
                ELSE conflict_scan(all_creneaux, i + 1, debut, fin, exclude_creneau_id)

\* validate_creneau_time_slot with a fault: the SELECT has no filter, so the
\* bookings of every infrastructure are compared
validate_every_infrastructure(table, infrastructure_id, debut_prevu, fin_prevu, exclude_creneau_id) ==
  LET debut == fromisoformat(debut_prevu)
      fin == fromisoformat(fin_prevu)
  IN  IF fin <= debut
      THEN [ok |-> FALSE, msg |-> <<"End time must be after start time">>]
      ELSE conflict_scan(rows_in_order(table), 1, debut, fin, exclude_creneau_id)

\* validate_creneau_time_slot with a fault: an interval of no length passes
\* the test on the end
validate_end_not_before_start(table, infrastructure_id, debut_prevu, fin_prevu, exclude_creneau_id) ==
  LET debut == fromisoformat(debut_prevu)
      fin == fromisoformat(fin_prevu)
  IN  IF fin < debut
      THEN [ok |-> FALSE, msg |-> <<"End time must be after start time">>]
      ELSE conflict_scan(select(table, [infrastructure_id |-> infrastructure_id]),
                         1, debut, fin, exclude_creneau_id)

validate_creneau_time_slot(table, infrastructure_id, debut_prevu, fin_prevu, exclude_creneau_id) ==
  LET debut == fromisoformat(debut_prevu)
      fin == fromisoformat(fin_prevu)
  IN  IF fin <= debut
      THEN [ok |-> FALSE, msg |-> <<"End time must be after start time">>]
      ELSE conflict_scan(select(table, [infrastructure_id |-> infrastructure_id]),
                         1, debut, fin, exclude_creneau_id)

\* infrastructure_cost with a fault: the duration is taken as debut - fin
infrastructure_cost_reversed_duration(infrastructure_id, debut_prevu, fin_prevu) ==
  IF truthy(infrastructure_id)
  THEN LET infra == select(Infrastructure, [Id |-> infrastructure_id])
       IN  IF infra # <<>>
           THEN LET minutes == fromisoformat(debut_prevu) - fromisoformat(fin_prevu)
                IN  IF minutes >= 30 * 1440
                    THEN minutes * 7 * infra[1].prix_mois
                    ELSE IF minutes >= 7 * 1440
                         THEN minutes * 30 * infra[1].prix_semaine
                         ELSE minutes * 210 * infra[1].prix_jour
           ELSE 0
  ELSE 0

\* infrastructure_cost with a fault: days is floored to whole days
infrastructure_cost_whole_days(infrastructure_id, debut_prevu, fin_prevu) ==
  IF truthy(infrastructure_id)
  THEN LET infra == select(Infrastructure, [Id |-> infrastructure_id])
       IN  IF infra # <<>>
           THEN LET whole == (fromisoformat(fin_prevu) - fromisoformat(debut_prevu)) \div 1440
                    minutes == whole * 1440
                IN  IF whole >= 30
                    THEN minutes * 7 * infra[1].prix_mois
                    ELSE IF whole >= 7
                         THEN minutes * 30 * infra[1].prix_semaine
                         ELSE minutes * 210 * infra[1].prix_jour
           ELSE 0
  ELSE 0

\* infrastructure part of calculate_creneau_cost, in units of 1/(1440*210)
infrastructure_cost(infrastructure_id, debut_prevu, fin_prevu) ==
  IF truthy(infrastructure_id)
  THEN LET infra == select(Infrastructure, [Id |-> infrastructure_id])
       IN  IF infra # <<>>
           THEN LET minutes == fromisoformat(fin_prevu) - fromisoformat(debut_prevu)
                IN  IF minutes >= 30 * 1440      \* days >= 30
                    THEN minutes * 7 * infra[1].prix_mois
                    ELSE IF minutes >= 7 * 1440  \* days >= 7
                         THEN minutes * 30 * infra[1].prix_semaine
                         ELSE minutes * 210 * infra[1].prix_jour
           ELSE 0
  ELSE 0

\* avitaillement_cost with a fault: the SELECT has no filter, so an id without
\* a row is charged the cost of the first row
avitaillement_cost_of_first_row(avitaillement_id) ==
  IF truthy(avitaillement_id)
  THEN LET avitaillement == rows_in_order(Avitaillement)
       IN  IF avitaillement # <<>> THEN avitaillement[1].cout ELSE 0
  ELSE 0

\* avitaillement part of calculate_creneau_cost
avitaillement_cost(avitaillement_id) ==
  IF truthy(avitaillement_id)
  THEN LET avitaillement == select(Avitaillement, [Id |-> avitaillement_id])
       IN  IF avitaillement # <<>> THEN avitaillement[1].cout ELSE 0
  ELSE 0

calculate_creneau_cost(infrastructure_id, avitaillement_id, debut_prevu, fin_prevu) ==
  infrastructure_cost(infrastructure_id, debut_prevu, fin_prevu)
    + avitaillement_cost(avitaillement_id)

\* valid_transitions with a fault: a cancelled booking can be requested again
valid_transitions_reopening(current_state) ==
  CASE current_state = "Demandé"  -> {"Confirmé", "Annulé"}
    [] current_state = "Confirmé" -> {"Autorisé", "Annulé"}
    [] current_state = "Autorisé" -> {"Achevé"}
    [] current_state = "Achevé"   -> {}
    [] current_state = "Annulé"   -> {"Demandé"}
    [] OTHER                      -> {}

\* valid_transitions with a fault: the list of "Demandé" also holds "Autorisé"
valid_transitions_skipping(current_state) ==
  CASE current_state = "Demandé"  -> {"Confirmé", "Autorisé", "Annulé"}
    [] current_state = "Confirmé" -> {"Autorisé", "Annulé"}
    [] current_state = "Autorisé" -> {"Achevé"}
    [] current_state = "Achevé"   -> {}
    [] current_state = "Annulé"   -> {}
    [] OTHER                      -> {}

\* valid_transitions with a fault: an authorized booking can go back to
\* "Confirmé"
valid_transitions_suspending(current_state) ==
  CASE current_state = "Demandé"  -> {"Confirmé", "Annulé"}
    [] current_state = "Confirmé" -> {"Autorisé", "Annulé"}
    [] current_state = "Autorisé" -> {"Achevé", "Confirmé"}
    [] current_state = "Achevé"   -> {}
    [] current_state = "Annulé"   -> {}
    [] OTHER                      -> {}

\* the dictionary valid_transitions; .get(current_state, []) for other keys
valid_transitions(current_state) ==
  CASE current_state = "Demandé"  -> {"Confirmé", "Annulé"}
    [] current_state = "Confirmé" -> {"Autorisé", "Annulé"}
    [] current_state = "Autorisé" -> {"Achevé"}
    [] current_state = "Achevé"   -> {}
    [] current_state = "Annulé"   -> {}
    [] OTHER                      -> {}

\* validate_creneau_state_transition with a fault: the table is not consulted
validate_any_state_transition(current_state, new_state) == [ok |-> TRUE, msg |-> <<>>]

validate_creneau_state_transition(current_state, new_state) ==
  IF new_state = current_state THEN [ok |-> TRUE, msg |-> <<>>]
  ELSE IF new_state \notin valid_transitions(current_state)
       THEN [ok |-> FALSE,
             msg |-> <<"Invalid state transition", current_state, new_state>>]
       ELSE [ok |-> TRUE, msg |-> <<>>]

-----------------------------------------------------------------------------
(* api/models.py: the request body CreneauCreate *)

OptionalFields ==
  {"cout_total", "avitaillement_id", "pilote_id", "infrastructure_id", "facture_id",
   "agent_id"}

\* creneau.<field>: an Optional field that is not set reads as None
attr(creneau, field) == IF creneau[field] = UNSET THEN NULL ELSE creneau[field]

\* creneau.model_dump(): every field, the unset ones with their default None
model_dump(creneau) ==
  [c \in DOMAIN creneau |->
     IF c \in OptionalFields THEN attr(creneau, c) ELSE creneau[c]]

\* creneau.model_dump(exclude_unset=True): only the fields the body gave
model_dump_exclude_unset(creneau) ==
  [c \in { d \in DOMAIN creneau : d \notin OptionalFields \/ creneau[d] # UNSET } |->
     creneau[c]]

\* data with data[key] = value, as the assignment data[key] = value of a dict
dict_set(data, key, value) ==
  [c \in DOMAIN data \cup {key} |-> IF c = key THEN value ELSE data[c]]

-----------------------------------------------------------------------------
(* The request bodies the model sends *)

SlotA == << <<10, 10, 0>>,  <<10, 11, 0>> >>   \* 10:00 - 11:00
SlotB == << <<10, 12, 30>>, <<10, 13, 30>> >>  \* starts 90 min after SlotA ends
SlotC == << <<10, 12, 29>>, <<10, 13, 30>> >>  \* starts 89 min after SlotA ends
SlotR == << <<10, 13, 30>>, <<10, 10, 0>> >>   \* ends 210 min before it starts

Slots == {SlotA, SlotB, SlotC, SlotR}

SlotZ == << <<10, 10, 0>>,  <<10, 10, 0>> >>   \* ends when it starts

Etats == {"Demandé", "Confirmé", "Autorisé", "Achevé", "Annulé"}

Body(slot, etat) ==
  [debut_prevu |-> slot[1], fin_prevu |-> slot[2], etat |-> etat,
   cout_total |-> UNSET, avitaillement_id |-> UNSET, pilote_id |-> UNSET,
   infrastructure_id |-> UNSET, facture_id |-> UNSET]

\* bodies that vary the schedule on infrastructure 1, one on infrastructure 2
\* and one that names no infrastructure
ScheduleBodies ==
  { [Body(s, "Demandé") EXCEPT !.infrastructure_id = 1] : s \in Slots }
    \cup { [Body(SlotC, "Demandé") EXCEPT !.infrastructure_id = 2],
           Body(SlotA, "Demandé") }

\* bodies that end after, when and before they start, with and without an
\* infrastructure
DegenerateBodies ==
  { [Body(s, "Demandé") EXCEPT !.infrastructure_id = i] :
      s \in {SlotA, SlotZ, SlotR}, i \in {1, UNSET} }

\* bodies that vary the proposed state, and one with a refuelling, an invoice
\* and a cost of its own
LifecycleBodies ==
  { Body(SlotA, e) : e \in Etats }
    \cup { [Body(SlotA, "Demandé") EXCEPT !.avitaillement_id = 1, !.facture_id = 1,
                                          !.cout_total = 999] }

-----------------------------------------------------------------------------
(* api/main.py: the role dependencies and the Creneaux endpoints *)

\* is_agent with a fault: every authenticated caller passes
is_agent_or_anyone(current_user) == current_user.type \in {"agent", "gestionnaire", "pilote"}

\* Depends(is_agent): passes for an agent or a gestionnaire
is_agent(current_user) == current_user.type \in {"agent", "gestionnaire"}

\* Depends(is_pilote): passes for a pilote
is_pilote(current_user) == current_user.type = "pilote"

\* what the model keeps of one HTTP exchange: the endpoint, the caller, the
\* creneau_id, the body, the status code and the row the request found
Exchange(op, user, id, body, status, old) ==
  [op |-> op, user |-> user, id |-> id, body |-> body, status |-> status, old |-> old]

\* HTTP 403 raised by a role dependency, before the endpoint runs
forbidden(op, current_user, id) ==
  /\ last' = Exchange(op, current_user, id, {}, 403, {})
  /\ UNCHANGED <<Creneaux, seq>>

\* creneau_data with a fault: the etat of the body is kept
creneau_data_with_body_etat(creneau, current_user) ==
  LET dumped == model_dump(creneau)
      owned == dict_set(dumped, "pilote_id", current_user.id)
  IN  dict_set(owned, "cout_total",
               calculate_creneau_cost(attr(creneau, "infrastructure_id"),
                                      attr(creneau, "avitaillement_id"),
                                      creneau.debut_prevu, creneau.fin_prevu))

\* creneau_data with a fault: the pilote_id of the body is kept
creneau_data_with_body_pilote(creneau, current_user) ==
  LET dumped == model_dump(creneau)
      requested == dict_set(dumped, "etat", "Demandé")
  IN  dict_set(requested, "cout_total",
               calculate_creneau_cost(attr(creneau, "infrastructure_id"),
                                      attr(creneau, "avitaillement_id"),
                                      creneau.debut_prevu, creneau.fin_prevu))

\* the row create_creneau hands to db.create
creneau_data(creneau, current_user) ==
  LET dumped == model_dump(creneau)
      owned == dict_set(dumped, "pilote_id", current_user.id)
      requested == dict_set(owned, "etat", "Demandé")
  IN  dict_set(requested, "cout_total",
               calculate_creneau_cost(attr(creneau, "infrastructure_id"),
                                      attr(creneau, "avitaillement_id"),
                                      creneau.debut_prevu, creneau.fin_prevu))

\* DatabaseManager.create on Creneaux: the new row, with the next AUTOINCREMENT Id
create(data, id) == dict_set(data, "Id", id)

\* create_creneau with a fault: the row is inserted before the time slot is
\* validated
create_creneau_inserting_first(current_user, creneau) ==
  LET check == validate_creneau_time_slot(Creneaux, attr(creneau, "infrastructure_id"),
                                          creneau.debut_prevu, creneau.fin_prevu, NULL)
      data == creneau_data(creneau, current_user)
      reply(status, id) == Exchange("create_creneau", current_user, id, {creneau}, status, {})
  IN  IF ~foreign_keys_ok(data)
      THEN /\ last' = reply(400, 0)
           /\ UNCHANGED <<Creneaux, seq>>
      ELSE /\ seq < MaxCreneaux
           /\ Creneaux' = Creneaux \cup {create(data, seq + 1)}
           /\ seq' = seq + 1
           /\ last' = IF check.ok THEN reply(201, seq + 1) ELSE reply(409, 0)

\* POST /creneaux/
create_creneau(current_user, creneau) ==
  LET check == validate_creneau_time_slot(Creneaux, attr(creneau, "infrastructure_id"),
                                          creneau.debut_prevu, creneau.fin_prevu, NULL)
      data == creneau_data(creneau, current_user)
      reply(status, id) == Exchange("create_creneau", current_user, id, {creneau}, status, {})
  IN  IF ~check.ok
      THEN /\ last' = reply(409, 0)
           /\ UNCHANGED <<Creneaux, seq>>
      ELSE IF ~foreign_keys_ok(data)
      THEN /\ last' = reply(400, 0)
           /\ UNCHANGED <<Creneaux, seq>>
      ELSE /\ seq < MaxCreneaux
           /\ Creneaux' = Creneaux \cup {create(data, seq + 1)}
           /\ seq' = seq + 1
           /\ last' = reply(201, seq + 1)

\* the dict update_creneau hands to db.update
update_data(updated_data) ==
  dict_set(model_dump_exclude_unset(updated_data), "cout_total",
           calculate_creneau_cost(attr(updated_data, "infrastructure_id"),
                                  attr(updated_data, "avitaillement_id"),
                                  updated_data.debut_prevu, updated_data.fin_prevu))

\* update_creneau with a fault: the row is written before the transition is
\* validated, and a refused transition only puts the stored etat back
update_creneau_writing_first(current_user, creneau_id, updated_data) ==
  LET existing_creneau == select(Creneaux, [Id |-> creneau_id])
      old == { existing_creneau[i] : i \in 1..Len(existing_creneau) }
      written == update(Creneaux, update_data(updated_data), [Id |-> creneau_id])
      reply(status) ==
        Exchange("update_creneau", current_user, creneau_id, {updated_data}, status, old)
  IN  IF existing_creneau = <<>>
      THEN /\ last' = reply(404)
           /\ UNCHANGED <<Creneaux, seq>>
      ELSE IF ~validate_creneau_state_transition(existing_creneau[1].etat,
                                                 updated_data.etat).ok
      THEN /\ last' = reply(400)
           /\ Creneaux' = update(written, [etat |-> existing_creneau[1].etat],
                                 [Id |-> creneau_id])
           /\ UNCHANGED seq
      ELSE /\ Creneaux' = written
           /\ last' = reply(200)
           /\ UNCHANGED seq

\* PUT /creneaux/{creneau_id}
update_creneau(current_user, creneau_id, updated_data) ==
  LET existing_creneau == select(Creneaux, [Id |-> creneau_id])
      old == { existing_creneau[i] : i \in 1..Len(existing_creneau) }
      reply(status) ==
        Exchange("update_creneau", current_user, creneau_id, {updated_data}, status, old)
  IN  IF existing_creneau = <<>>
      THEN /\ last' = reply(404)
           /\ UNCHANGED <<Creneaux, seq>>
      ELSE IF ~validate_creneau_state_transition(existing_creneau[1].etat,
                                                 updated_data.etat).ok
      THEN /\ last' = reply(400)
           /\ UNCHANGED <<Creneaux, seq>>
      ELSE IF update_rowcount(Creneaux, update_data(updated_data), [Id |-> creneau_id]) = 0
      THEN /\ last' = reply(404)
           /\ UNCHANGED <<Creneaux, seq>>
      ELSE /\ Creneaux' = update(Creneaux, update_data(updated_data), [Id |-> creneau_id])
           /\ last' = reply(200)
           /\ UNCHANGED seq

\* DELETE /creneaux/{creneau_id}
delete_creneau(current_user, creneau_id) ==
  LET old == { r \in Creneaux : matches(r, [Id |-> creneau_id]) }
  IN  IF delete_rowcount(Creneaux, [Id |-> creneau_id]) = 0
      THEN /\ last' = Exchange("delete_creneau", current_user, creneau_id, {}, 404, {})
           /\ UNCHANGED <<Creneaux, seq>>
      ELSE /\ Creneaux' = delete(Creneaux, [Id |-> creneau_id])
           /\ last' = Exchange("delete_creneau", current_user, creneau_id, {}, 204, old)
           /\ UNCHANGED seq

-----------------------------------------------------------------------------
(* Requests served one at a time *)

Workers == {1, 2}

Init ==
  /\ Creneaux = {}
  /\ seq = 0
  /\ last = Exchange("none", [id |-> 0, type |-> "none"], 0, {}, 0, {})
  /\ pc = [w \in Workers |-> "idle"]
  /\ loc = [w \in Workers |-> {}]
  /\ Avion = AvionRows
  /\ Messagerie = MessagerieRows
  /\ Facture = FactureRows

CreateCreneau(bodies) ==
  /\ \E u \in Users :
       IF is_pilote(u)
       THEN \E b \in bodies : create_creneau(u, b)
       ELSE forbidden("create_creneau", u, 0)
  /\ UNCHANGED <<pc, loc, Avion, Messagerie, Facture>>

UpdateCreneau(bodies) ==
  /\ \E u \in Users, i \in 1..MaxCreneaux :
       IF is_agent(u)
       THEN \E b \in bodies : update_creneau(u, i, b)
       ELSE forbidden("update_creneau", u, i)
  /\ UNCHANGED <<pc, loc, Avion, Messagerie, Facture>>

DeleteCreneau ==
  /\ \E u \in Users, i \in 1..MaxCreneaux :
       IF is_agent(u)
       THEN delete_creneau(u, i)
       ELSE forbidden("delete_creneau", u, i)
  /\ UNCHANGED <<pc, loc, Avion, Messagerie, Facture>>

\* the schedule of the bookings
Next ==
  \/ CreateCreneau(ScheduleBodies)
  \/ UpdateCreneau(ScheduleBodies)
  \/ DeleteCreneau

Spec == Init /\ [][Next]_vars

\* the lifecycle of the bookings
NextLifecycle ==
  \/ CreateCreneau(LifecycleBodies)
  \/ UpdateCreneau(LifecycleBodies)
  \/ DeleteCreneau

SpecLifecycle == Init /\ [][NextLifecycle]_vars

\* bodies of POST /creneaux/ on infrastructure 1: a slot, one 90 minutes
\* after it and one 89 minutes after it
StateCreates ==
  { [Body(s, "Demandé") EXCEPT !.infrastructure_id = 1] : s \in {SlotA, SlotB, SlotC} }

\* bodies of PUT /creneaux/ that propose the states a booking can move to and
\* keep the slot and the infrastructure
StateUpdates ==
  { [Body(s, e) EXCEPT !.infrastructure_id = 1] :
      s \in {SlotA, SlotB}, e \in Etats \ {"Demandé"} }

\* the bookings of one infrastructure in every state of the lifecycle
NextStates ==
  \/ CreateCreneau(StateCreates)
  \/ UpdateCreneau(StateUpdates)
  \/ DeleteCreneau

SpecStates == Init /\ [][NextStates]_vars

\* the bookings that do not end after they start
NextDegenerate ==
  \/ CreateCreneau(DegenerateBodies)
  \/ UpdateCreneau(DegenerateBodies)
  \/ DeleteCreneau

SpecDegenerate == Init /\ [][NextDegenerate]_vars

-----------------------------------------------------------------------------
(* Two server processes on the same database file, each serving one         *)
(* create_creneau at a time.  Every DatabaseManager call opens its own       *)
(* connection and commits on its own, so a step is one call to the database. *)

Pilotes == { u \in Users : is_pilote(u) }

ConcurrentBodies == { b \in ScheduleBodies : b.infrastructure_id = 1 }

\* create_creneau up to the conflict check: the SELECT of validate_creneau_time_slot
CreateValidate(w) ==
  /\ pc[w] = "idle"
  /\ \E u \in Pilotes, b \in ConcurrentBodies :
       IF validate_creneau_time_slot(Creneaux, attr(b, "infrastructure_id"),
                                     b.debut_prevu, b.fin_prevu, NULL).ok
       THEN /\ pc' = [pc EXCEPT ![w] = "validated"]
            /\ loc' = [loc EXCEPT ![w] = {[user |-> u, creneau |-> b]}]
            /\ UNCHANGED <<Creneaux, seq, last, Avion, Messagerie, Facture>>
       ELSE /\ last' = Exchange("create_creneau", u, 0, {b}, 409, {})
            /\ UNCHANGED <<Creneaux, seq, pc, loc, Avion, Messagerie, Facture>>

\* create_creneau from model_dump to the cost: the SELECTs of calculate_creneau_cost
CreateCost(w) ==
  /\ pc[w] = "validated"
  /\ \E l \in loc[w] :
       loc' = [loc EXCEPT ![w] =
                 {[user |-> l.user, creneau |-> l.creneau,
                   creneau_data |-> creneau_data(l.creneau, l.user)]}]
  /\ pc' = [pc EXCEPT ![w] = "costed"]
  /\ UNCHANGED <<Creneaux, seq, last, Avion, Messagerie, Facture>>

\* create_creneau from db.create on: the INSERT
CreateInsert(w) ==
  /\ pc[w] = "costed"
  /\ \E l \in loc[w] :
       IF foreign_keys_ok(l.creneau_data)
       THEN /\ seq < MaxCreneaux
            /\ Creneaux' = Creneaux \cup {create(l.creneau_data, seq + 1)}
            /\ seq' = seq + 1
            /\ last' = Exchange("create_creneau", l.user, seq + 1, {l.creneau}, 201, {})
       ELSE /\ last' = Exchange("create_creneau", l.user, 0, {l.creneau}, 400, {})
            /\ UNCHANGED <<Creneaux, seq>>
  /\ pc' = [pc EXCEPT ![w] = "idle"]
  /\ loc' = [loc EXCEPT ![w] = {}]
  /\ UNCHANGED <<Avion, Messagerie, Facture>>

NextConcurrent ==
  \/ \E w \in Workers : CreateValidate(w)
  \/ \E w \in Workers : CreateCost(w)
  \/ \E w \in Workers : CreateInsert(w)
  \/ DeleteCreneau

SpecConcurrent == Init /\ [][NextConcurrent]_vars

\* the callers that pass is_agent
Agents == { u \in Users : is_agent(u) }

\* bodies of PUT /creneaux/ that confirm, authorize and cancel
ConcurrentUpdates == { Body(SlotA, e) : e \in {"Confirmé", "Autorisé", "Annulé"} }

\* update_creneau up to the validation of the transition: the SELECT of the
\* stored row and validate_creneau_state_transition on its etat
UpdateSelect(w) ==
  /\ pc[w] = "idle"
  /\ \E u \in Agents, i \in 1..MaxCreneaux, b \in ConcurrentUpdates :
       LET existing_creneau == select(Creneaux, [Id |-> i])
           old == { existing_creneau[k] : k \in 1..Len(existing_creneau) }
           reply(status) == Exchange("update_creneau", u, i, {b}, status, old)
       IN  IF existing_creneau = <<>>
           THEN /\ last' = reply(404)
                /\ UNCHANGED <<pc, loc>>
           ELSE IF ~validate_creneau_state_transition(existing_creneau[1].etat, b.etat).ok
           THEN /\ last' = reply(400)
                /\ UNCHANGED <<pc, loc>>
           ELSE /\ pc' = [pc EXCEPT ![w] = "selected"]
                /\ loc' = [loc EXCEPT ![w] =
                             {[user |-> u, creneau_id |-> i, updated_data |-> b,
                               existing_creneau |-> old]}]
                /\ UNCHANGED last
  /\ UNCHANGED <<Creneaux, seq, Avion, Messagerie, Facture>>

\* update_creneau from model_dump on: calculate_creneau_cost, which reads
\* Infrastructure and Avitaillement only, and the UPDATE
UpdateWrite(w) ==
  /\ pc[w] = "selected"
  /\ \E l \in loc[w] :
       LET data == update_data(l.updated_data)
           filters == [Id |-> l.creneau_id]
           reply(status) == Exchange("update_creneau", l.user, l.creneau_id,
                                     {l.updated_data}, status, l.existing_creneau)
       IN  IF update_rowcount(Creneaux, data, filters) = 0
           THEN /\ last' = reply(404)
                /\ UNCHANGED Creneaux
           ELSE /\ Creneaux' = update(Creneaux, data, filters)
                /\ last' = reply(200)
  /\ pc' = [pc EXCEPT ![w] = "idle"]
  /\ loc' = [loc EXCEPT ![w] = {}]
  /\ UNCHANGED <<seq, Avion, Messagerie, Facture>>

\* two update_creneau in service at once on bookings created and deleted one
\* request at a time
NextConcurrentUpdate ==
  \/ CreateCreneau({Body(SlotA, "Demandé")})
  \/ \E w \in Workers : UpdateSelect(w)
  \/ \E w \in Workers : UpdateWrite(w)
  \/ DeleteCreneau

SpecConcurrentUpdate == Init /\ [][NextConcurrentUpdate]_vars

-----------------------------------------------------------------------------
(* api/main.py: the Avion endpoints that look at the owner.  Columns marque, *)
(* dimension, poids and carburant_id are left out of the rows and of the     *)
(* bodies.  The requests of this part name no avitaillement, and the rows of *)
(* Creneaux leave avion_id out, so ON DELETE CASCADE of Avitaillement and    *)
(* ON DELETE SET NULL of Creneaux.avion_id have nothing to act on.           *)

\* the callers: two pilotes, two agents and a gestionnaire
AccessUsers ==
  { [id |-> 1, type |-> "pilote"], [id |-> 2, type |-> "pilote"],
    [id |-> 1, type |-> "agent"],  [id |-> 2, type |-> "agent"],
    [id |-> 1, type |-> "gestionnaire"] }

Registrations == { a.Immatriculation : a \in AvionRows }

\* WHERE key = ? for a text key taken from the path, which is never NULL
key_matches(row, filters) == \A c \in DOMAIN filters : row[c] = filters[c]

\* DatabaseManager.select on a table with a text key: rowid order is not
\* modelled, the filters on the key give one row at most
select_by_key(table, filters) ==
  LET found == { r \in table : key_matches(r, filters) }
  IN  IF found = {} THEN <<>> ELSE <<CHOOSE r \in found : TRUE>>

\* check_user_owns_avion
check_user_owns_avion(table, pilote_id, immatriculation) ==
  LET avion == select_by_key(table, [Immatriculation |-> immatriculation])
  IN  IF avion = <<>> THEN FALSE ELSE avion[1].pilote_id = pilote_id

\* PRIMARY KEY and FOREIGN KEY (pilote_id) of Avion
avion_constraints_ok(table) ==
  /\ \A a \in table, b \in table : a.Immatriculation = b.Immatriculation => a = b
  /\ \A a \in table : a.pilote_id = NULL \/ \E q \in Pilote : q.Id = a.pilote_id

\* DatabaseManager.update on Avion: the table after the UPDATE; an
\* sqlite3.Error rolls back
update_avion_rows(table, data, filters) ==
  LET hit == { r \in table : key_matches(r, filters) }
      new == (table \ hit) \cup { assign(r, data) : r \in hit }
  IN  IF avion_constraints_ok(new) /\ Cardinality(new) = Cardinality(table)
      THEN new ELSE table

\* rows_affected of DatabaseManager.update on Avion
update_avion_rowcount(table, data, filters) ==
  LET hit == { r \in table : key_matches(r, filters) }
      new == (table \ hit) \cup { assign(r, data) : r \in hit }
  IN  IF avion_constraints_ok(new) /\ Cardinality(new) = Cardinality(table)
      THEN Cardinality(hit) ELSE 0

\* DatabaseManager.delete on Avion: the table after the DELETE
delete_avion_rows(table, filters) == { r \in table : ~key_matches(r, filters) }

\* rows_affected of DatabaseManager.delete on Avion
delete_avion_rowcount(table, filters) ==
  Cardinality({ r \in table : key_matches(r, filters) })

\* the answer of an Avion endpoint
avion_reply(op, current_user, immatriculation, body, status, old) ==
  /\ last' = Exchange(op, current_user, immatriculation, body, status, old)
  /\ UNCHANGED <<Creneaux, seq, pc, loc, Messagerie, Facture>>

\* GET /avions/{immatriculation}
get_avion(current_user, immatriculation) ==
  LET avion == select_by_key(Avion, [Immatriculation |-> immatriculation])
      old == { avion[i] : i \in 1..Len(avion) }
      reply(status) == avion_reply("get_avion", current_user, immatriculation, {}, status, old)
  IN  /\ IF avion = <<>> THEN reply(404)
         ELSE IF current_user.type \notin {"gestionnaire", "agent"}
                 /\ ~check_user_owns_avion(Avion, current_user.id, immatriculation)
         THEN reply(403)
         ELSE reply(200)
      /\ UNCHANGED Avion

\* PUT /avions/{immatriculation}
update_avion(current_user, immatriculation, updated_data) ==
  LET avion == select_by_key(Avion, [Immatriculation |-> immatriculation])
      old == { avion[i] : i \in 1..Len(avion) }
      data == model_dump_exclude_unset(updated_data)
      filters == [Immatriculation |-> immatriculation]
      reply(status) ==
        avion_reply("update_avion", current_user, immatriculation, {updated_data}, status, old)
  IN  IF avion = <<>> THEN reply(404) /\ UNCHANGED Avion
      ELSE IF current_user.type \notin {"gestionnaire"}
              /\ ~check_user_owns_avion(Avion, current_user.id, immatriculation)
      THEN reply(403) /\ UNCHANGED Avion
      ELSE IF update_avion_rowcount(Avion, data, filters) = 0
      THEN reply(404) /\ UNCHANGED Avion
      ELSE reply(200) /\ Avion' = update_avion_rows(Avion, data, filters)

\* DELETE /avions/{immatriculation}
delete_avion(current_user, immatriculation) ==
  LET avion == select_by_key(Avion, [Immatriculation |-> immatriculation])
      old == { avion[i] : i \in 1..Len(avion) }
      filters == [Immatriculation |-> immatriculation]
      reply(status) == avion_reply("delete_avion", current_user, immatriculation, {}, status, old)
  IN  IF avion = <<>> THEN reply(404) /\ UNCHANGED Avion
      ELSE IF current_user.type \notin {"gestionnaire"}
              /\ ~check_user_owns_avion(Avion, current_user.id, immatriculation)
      THEN reply(403) /\ UNCHANGED Avion
      ELSE IF delete_avion_rowcount(Avion, filters) = 0
      THEN reply(404) /\ UNCHANGED Avion
      ELSE reply(204) /\ Avion' = delete_avion_rows(Avion, filters)

\* the bodies of PUT /avions/: a registration, a model and, or not, an owner
AvionBodies ==
  { [Immatriculation |-> k, modele |-> "DR400", pilote_id |-> q] :
      k \in Registrations, q \in {UNSET, 2} }

GetAvion == \E u \in AccessUsers, k \in Registrations : get_avion(u, k)

UpdateAvion ==
  \E u \in AccessUsers, k \in Registrations, b \in AvionBodies : update_avion(u, k, b)

DeleteAvion == \E u \in AccessUsers, k \in Registrations : delete_avion(u, k)

NextAvion == GetAvion \/ UpdateAvion \/ DeleteAvion

SpecAvion == Init /\ [][NextAvion]_vars

-----------------------------------------------------------------------------
(* api/main.py: the read of one booking, among requests that create, update  *)
(* and delete bookings of two pilotes                                        *)

\* check_user_owns_creneau with a fault: the owner is not compared
check_user_owns_existing_creneau(table, pilote_id, creneau_id) ==
  select(table, [Id |-> creneau_id]) # <<>>

\* check_user_owns_creneau
check_user_owns_creneau(table, pilote_id, creneau_id) ==
  LET creneau == select(table, [Id |-> creneau_id])
  IN  IF creneau = <<>> THEN FALSE ELSE creneau[1].pilote_id = pilote_id

\* GET /creneaux/{creneau_id}
get_creneau(current_user, creneau_id) ==
  LET creneau == select(Creneaux, [Id |-> creneau_id])
      old == { creneau[i] : i \in 1..Len(creneau) }
      reply(status) == Exchange("get_creneau", current_user, creneau_id, {}, status, old)
  IN  /\ last' = IF creneau = <<>> THEN reply(404)
                 ELSE IF current_user.type \notin {"gestionnaire", "agent"}
                         /\ ~check_user_owns_creneau(Creneaux, current_user.id, creneau_id)
                 THEN reply(403)
                 ELSE reply(200)
      /\ UNCHANGED <<Creneaux, seq>>

\* bodies of POST /creneaux/ on two infrastructures
AccessBodies ==
  { [Body(SlotA, "Demandé") EXCEPT !.infrastructure_id = i] : i \in {1, 2} }

\* bodies of PUT /creneaux/ that confirm and cancel
AccessUpdates == { Body(SlotA, "Confirmé"), Body(SlotA, "Annulé") }

GetCreneau ==
  /\ \E u \in AccessUsers, i \in 1..MaxCreneaux : get_creneau(u, i)
  /\ UNCHANGED <<pc, loc, Avion, Messagerie, Facture>>

\* POST /creneaux/ by any of the callers
CreateCreneauBy(users, bodies) ==
  /\ \E u \in users :
       IF is_pilote(u)
       THEN \E b \in bodies : create_creneau(u, b)
       ELSE forbidden("create_creneau", u, 0)
  /\ UNCHANGED <<pc, loc, Avion, Messagerie, Facture>>

NextAccess ==
  \/ CreateCreneauBy(AccessUsers, AccessBodies)
  \/ UpdateCreneau(AccessUpdates)
  \/ DeleteCreneau
  \/ GetCreneau

SpecAccess == Init /\ [][NextAccess]_vars

-----------------------------------------------------------------------------
(* api/main.py: the reads and the update that look at who a message or an    *)
(* invoice belongs to.  Columns date, heure and sens_d_envoie of Messagerie  *)
(* and date_d_emission of Facture are left out.                             *)

\* check_user_access_to_message with a fault: only the pilote_id is compared
check_user_is_pilote_of_message(table, user_id, message_id) ==
  LET message == select(table, [Id |-> message_id])
  IN  IF message = <<>> THEN FALSE ELSE user_id = message[1].pilote_id

\* check_user_access_to_message
check_user_access_to_message(table, user_id, message_id) ==
  LET message == select(table, [Id |-> message_id])
  IN  IF message = <<>> THEN FALSE
      ELSE user_id = message[1].pilote_id \/ user_id = message[1].agent_id

\* FOREIGN KEY (agent_id) and (pilote_id) of Messagerie
messagerie_constraints_ok(row) ==
  /\ row.agent_id = NULL \/ \E a \in Agent_d_exploitation : a.Id = row.agent_id
  /\ row.pilote_id = NULL \/ \E q \in Pilote : q.Id = row.pilote_id

\* DatabaseManager.update on Messagerie: the table after the UPDATE; an
\* sqlite3.Error rolls back
update_messagerie_rows(table, data, filters) ==
  LET hit == { r \in table : matches(r, filters) }
      new == { assign(r, data) : r \in hit }
  IN  IF \A r \in new : messagerie_constraints_ok(r)
      THEN (table \ hit) \cup new ELSE table

\* rows_affected of DatabaseManager.update on Messagerie
update_messagerie_rowcount(table, data, filters) ==
  LET hit == { r \in table : matches(r, filters) }
  IN  IF \A r \in hit : messagerie_constraints_ok(assign(r, data))
      THEN Cardinality(hit) ELSE 0

\* get_messagerie with a fault: the caller is authorized before the message
\* is looked up
get_messagerie_authorizing_first(current_user, message_id) ==
  LET messagerie == select(Messagerie, [Id |-> message_id])
      old == { messagerie[i] : i \in 1..Len(messagerie) }
      reply(status) == Exchange("get_messagerie", current_user, message_id, {}, status, old)
  IN  /\ last' = IF current_user.type \notin {"gestionnaire", "agent"}
                    /\ ~check_user_access_to_message(Messagerie, current_user.id,
                                                     message_id)
                 THEN reply(403)
                 ELSE IF messagerie = <<>> THEN reply(404)
                 ELSE reply(200)
      /\ UNCHANGED Messagerie

\* GET /messageries/{message_id}
get_messagerie(current_user, message_id) ==
  LET messagerie == select(Messagerie, [Id |-> message_id])
      old == { messagerie[i] : i \in 1..Len(messagerie) }
      reply(status) == Exchange("get_messagerie", current_user, message_id, {}, status, old)
  IN  /\ last' = IF messagerie = <<>> THEN reply(404)
                 ELSE IF current_user.type \notin {"gestionnaire", "agent"}
                         /\ ~check_user_access_to_message(Messagerie, current_user.id,
                                                          message_id)
                 THEN reply(403)
                 ELSE reply(200)
      /\ UNCHANGED Messagerie

\* PUT /messageries/{message_id}
update_messagerie(current_user, message_id, updated_data) ==
  LET messagerie == select(Messagerie, [Id |-> message_id])
      old == { messagerie[i] : i \in 1..Len(messagerie) }
      data == model_dump_exclude_unset(updated_data)
      filters == [Id |-> message_id]
      reply(status) ==
        Exchange("update_messagerie", current_user, message_id, {updated_data}, status, old)
  IN  IF messagerie = <<>>
      THEN last' = reply(404) /\ UNCHANGED Messagerie
      ELSE IF current_user.type \notin {"gestionnaire", "agent"}
              /\ ~check_user_access_to_message(Messagerie, current_user.id, message_id)
      THEN last' = reply(403) /\ UNCHANGED Messagerie
      ELSE IF update_messagerie_rowcount(Messagerie, data, filters) = 0
      THEN last' = reply(404) /\ UNCHANGED Messagerie
      ELSE /\ last' = reply(200)
           /\ Messagerie' = update_messagerie_rows(Messagerie, data, filters)

\* the bodies of PUT /messageries/: a text and, or not, an agent and a pilote
MessagerieBodies ==
  { [contenu |-> "Vu", agent_id |-> a, pilote_id |-> q] : a \in {UNSET, 2}, q \in {UNSET, 2} }

\* the ids of the messages, and one more
MessageIds == { m.Id : m \in MessagerieRows } \cup {3}

GetMessagerie ==
  /\ \E u \in AccessUsers, m \in MessageIds : get_messagerie(u, m)
  /\ UNCHANGED <<Creneaux, seq, pc, loc, Avion, Facture>>

UpdateMessagerie ==
  /\ \E u \in AccessUsers, m \in MessageIds, b \in MessagerieBodies : update_messagerie(u, m, b)
  /\ UNCHANGED <<Creneaux, seq, pc, loc, Avion, Facture>>

NextMessagerie == GetMessagerie \/ UpdateMessagerie

SpecMessagerie == Init /\ [][NextMessagerie]_vars

\* check_user_access_to_facture with a fault: any booking billed on the
\* invoice gives access, whoever holds it
check_user_access_to_billed_facture(table, pilote_id, facture_id) ==
  Len(select(table, [facture_id |-> facture_id])) > 0

\* check_user_access_to_facture
check_user_access_to_facture(table, pilote_id, facture_id) ==
  LET creneaux == select(table, [facture_id |-> facture_id, pilote_id |-> pilote_id])
  IN  Len(creneaux) > 0

\* GET /factures/{facture_id}
get_facture(current_user, facture_id) ==
  LET facture == select(Facture, [Id |-> facture_id])
      old == { facture[i] : i \in 1..Len(facture) }
      reply(status) == Exchange("get_facture", current_user, facture_id, {}, status, old)
  IN  /\ last' = IF facture = <<>> THEN reply(404)
                 ELSE IF current_user.type \notin {"gestionnaire", "agent"}
                         /\ ~check_user_access_to_facture(Creneaux, current_user.id,
                                                          facture_id)
                 THEN reply(403)
                 ELSE reply(200)
      /\ UNCHANGED <<Creneaux, seq>>

\* bodies of POST /creneaux/ that name no infrastructure and, or not, an
\* invoice and a pilote
FactureBodies ==
  { [Body(SlotA, "Demandé") EXCEPT !.facture_id = f, !.pilote_id = q] :
      f \in {UNSET, 1, 2}, q \in {UNSET, 1, 2} }

\* the ids of the invoices, and one more
FactureIds == { f.Id : f \in FactureRows } \cup {3}

GetFacture ==
  /\ \E u \in AccessUsers, f \in FactureIds : get_facture(u, f)
  /\ UNCHANGED <<pc, loc, Avion, Messagerie, Facture>>

NextFacture ==
  \/ CreateCreneauBy(AccessUsers, FactureBodies)
  \/ DeleteCreneau
  \/ GetFacture

SpecFacture == Init /\ [][NextFacture]_vars

-----------------------------------------------------------------------------
(* api/main.py: every endpoint that takes one aircraft, booking, invoice or  *)
(* message, called for a target that is stored and for one that is not.  No  *)
(* FOREIGN KEY of Facture is modelled: create_db.py declares none.           *)

\* Depends(is_gestionnaire): passes for a gestionnaire
is_gestionnaire(current_user) == current_user.type = "gestionnaire"

\* DELETE /messageries/{message_id}
delete_messagerie(current_user, message_id) ==
  LET filters == [Id |-> message_id]
      old == { r \in Messagerie : matches(r, filters) }
  IN  IF delete_rowcount(Messagerie, filters) = 0
      THEN /\ last' = Exchange("delete_messagerie", current_user, message_id, {}, 404, {})
           /\ UNCHANGED Messagerie
      ELSE /\ Messagerie' = delete(Messagerie, filters)
           /\ last' = Exchange("delete_messagerie", current_user, message_id, {}, 204, old)

\* DatabaseManager.update on Facture: the table after the UPDATE
update_facture_rows(table, data, filters) ==
  LET hit == { r \in table : matches(r, filters) }
  IN  (table \ hit) \cup { assign(r, data) : r \in hit }

\* PUT /factures/{facture_id}
update_facture(current_user, facture_id, updated_data) ==
  LET filters == [Id |-> facture_id]
      old == { r \in Facture : matches(r, filters) }
      data == model_dump_exclude_unset(updated_data)
      reply(status) ==
        Exchange("update_facture", current_user, facture_id, {updated_data}, status, old)
  IN  IF Cardinality(old) = 0
      THEN /\ last' = reply(404)
           /\ UNCHANGED Facture
      ELSE /\ Facture' = update_facture_rows(Facture, data, filters)
           /\ last' = reply(200)

\* DELETE /factures/{facture_id}
delete_facture(current_user, facture_id) ==
  LET filters == [Id |-> facture_id]
      old == { r \in Facture : matches(r, filters) }
  IN  IF delete_rowcount(Facture, filters) = 0
      THEN /\ last' = Exchange("delete_facture", current_user, facture_id, {}, 404, {})
           /\ UNCHANGED Facture
      ELSE /\ Facture' = delete(Facture, filters)
           /\ last' = Exchange("delete_facture", current_user, facture_id, {}, 204, old)

\* one aircraft, one invoice and one message of the demo data, and for each
\* a key that no row has
TargetRegistrations == {"F-GHTY", "F-ZZZZ"}
TargetFactures == {1, 3}
TargetMessages == {1, 3}

\* one body for each PUT and for POST /creneaux/
TargetAvionBody == [Immatriculation |-> "F-GHTY", modele |-> "DR400", pilote_id |-> UNSET]
TargetCreneauBody == Body(SlotA, "Confirmé")
TargetFactureBody == [rib |-> "FR7630001007941234567890187", agent_id |-> UNSET]
TargetMessageBody == [contenu |-> "Vu", agent_id |-> UNSET, pilote_id |-> UNSET]

GetAvionTarget == \E u \in Users, k \in TargetRegistrations : get_avion(u, k)

GetCreneauTarget ==
  /\ \E u \in Users, i \in 1..MaxCreneaux : get_creneau(u, i)
  /\ UNCHANGED <<pc, loc, Avion, Messagerie, Facture>>

GetFactureTarget ==
  /\ \E u \in Users, f \in TargetFactures : get_facture(u, f)
  /\ UNCHANGED <<pc, loc, Avion, Messagerie, Facture>>

GetMessageTarget ==
  /\ \E u \in Users, m \in TargetMessages : get_messagerie(u, m)
  /\ UNCHANGED <<Creneaux, seq, pc, loc, Avion, Facture>>

UpdateAvionTarget ==
  \E u \in Users, k \in TargetRegistrations : update_avion(u, k, TargetAvionBody)

DeleteAvionTarget ==
  \E u \in Users, k \in TargetRegistrations : delete_avion(u, k)

UpdateFacture ==
  /\ \E u \in Users, f \in TargetFactures :
       IF is_agent(u)
       THEN update_facture(u, f, TargetFactureBody)
       ELSE last' = Exchange("update_facture", u, f, {}, 403, {}) /\ UNCHANGED Facture
  /\ UNCHANGED <<Creneaux, seq, pc, loc, Avion, Messagerie>>

DeleteFacture ==
  /\ \E u \in Users, f \in TargetFactures :
       IF is_agent(u)
       THEN delete_facture(u, f)
       ELSE last' = Exchange("delete_facture", u, f, {}, 403, {}) /\ UNCHANGED Facture
  /\ UNCHANGED <<Creneaux, seq, pc, loc, Avion, Messagerie>>

UpdateMessageTarget ==
  /\ \E u \in Users, m \in TargetMessages : update_messagerie(u, m, TargetMessageBody)
  /\ UNCHANGED <<Creneaux, seq, pc, loc, Avion, Facture>>

DeleteMessagerie ==
  /\ \E u \in Users, m \in TargetMessages :
       IF is_gestionnaire(u)
       THEN delete_messagerie(u, m)
       ELSE last' = Exchange("delete_messagerie", u, m, {}, 403, {}) /\ UNCHANGED Messagerie
  /\ UNCHANGED <<Creneaux, seq, pc, loc, Avion, Facture>>

NextExistence ==
  \/ CreateCreneau({Body(SlotA, "Demandé")})
  \/ UpdateCreneau({TargetCreneauBody})
  \/ DeleteCreneau
  \/ GetAvionTarget
  \/ GetCreneauTarget
  \/ GetFactureTarget
  \/ GetMessageTarget
  \/ UpdateAvionTarget
  \/ DeleteAvionTarget
  \/ UpdateFacture
  \/ DeleteFacture
  \/ UpdateMessageTarget
  \/ DeleteMessagerie

SpecExistence == Init /\ [][NextExistence]_vars

\* the requests that call an ownership check with the id of the caller
NextOwnership ==
  \/ UpdateAvion
  \/ DeleteAvion
  \/ GetMessagerie
  \/ UpdateMessagerie

SpecOwnership == Init /\ [][NextOwnership]_vars

-----------------------------------------------------------------------------
(* The rules of business.py called on their own, between requests that fill  *)
(* and empty the store.  A call is kept in `last` with its arguments and its *)
(* result.                                                                   *)

\* no caller: a rule is a plain function
Nobody == [id |-> 0, type |-> "none"]

\* the record of a call: the arguments and the result are the fields of args
Call(op, args) == Exchange(op, Nobody, 0, {args}, 0, {})

\* bookings on infrastructure 1 that can be stored together
RuleBodies == { [Body(s, "Demandé") EXCEPT !.infrastructure_id = 1] : s \in {SlotA, SlotB} }

\* infrastructure_id arguments: None, 0, two rows and an id without a row
CostInfrastructures == {NULL, 0, 1, 2, 3}
\* avitaillement_id arguments: None, 0, a row and an id without a row
CostAvitaillements == {NULL, 0, 1, 2}
\* durations on both sides of the two thresholds
CostSlots ==
  { << <<1, 0, 0>>, <<1, 1, 0>> >>,      \* 1 hour
    << <<1, 0, 0>>, <<7, 23, 59>> >>,    \* 7 days less a minute
    << <<1, 0, 0>>, <<8, 0, 0>> >>,      \* 7 days
    << <<1, 0, 0>>, <<11, 0, 0>> >>,     \* 10 days
    << <<1, 0, 0>>, <<30, 23, 59>> >>,   \* 30 days less a minute
    << <<1, 0, 0>>, <<31, 0, 0>> >>,     \* 30 days
    << <<1, 0, 0>>, <<41, 0, 0>> >> }    \* 40 days

\* calculate_creneau_cost(db, infrastructure_id, avitaillement_id, debut_prevu,
\* fin_prevu): two SELECTs, no write
CalculateCreneauCost ==
  /\ \E i \in CostInfrastructures, a \in CostAvitaillements, s \in CostSlots :
       last' = Call("calculate_creneau_cost",
                    [infrastructure_id |-> i, avitaillement_id |-> a,
                     debut_prevu |-> s[1], fin_prevu |-> s[2],
                     result |-> calculate_creneau_cost(i, a, s[1], s[2])])
  /\ UNCHANGED <<Creneaux, seq, pc, loc, Avion, Messagerie, Facture>>

\* the candidates of the calls of validate_creneau_time_slot
RuleSlots == {SlotA, SlotB, SlotC, SlotR}

\* validate_creneau_time_slot with a fault: an accepted candidate is stored
\* at once
ValidateCreneauTimeSlotReserving ==
  /\ \E i \in {1, 2}, s \in RuleSlots, x \in {NULL, 1} :
       LET result == validate_creneau_time_slot(Creneaux, i, s[1], s[2], x)
       IN  /\ last' = Call("validate_creneau_time_slot",
                           [infrastructure_id |-> i, debut_prevu |-> s[1],
                            fin_prevu |-> s[2], exclude_creneau_id |-> x,
                            result |-> result])
           /\ IF result.ok /\ seq < MaxCreneaux
              THEN /\ Creneaux' = Creneaux \cup
                        {create(creneau_data([Body(s, "Demandé") EXCEPT !.infrastructure_id = i],
                                             Nobody), seq + 1)}
                   /\ seq' = seq + 1
              ELSE UNCHANGED <<Creneaux, seq>>
  /\ UNCHANGED <<pc, loc, Avion, Messagerie, Facture>>

\* validate_creneau_time_slot(db, infrastructure_id, debut_prevu, fin_prevu,
\* exclude_creneau_id): one SELECT, no write
ValidateCreneauTimeSlot ==
  /\ \E i \in {1, 2}, s \in RuleSlots, x \in {NULL, 1} :
       last' = Call("validate_creneau_time_slot",
                    [infrastructure_id |-> i, debut_prevu |-> s[1],
                     fin_prevu |-> s[2], exclude_creneau_id |-> x,
                     result |-> validate_creneau_time_slot(Creneaux, i, s[1], s[2], x)])
  /\ UNCHANGED <<Creneaux, seq, pc, loc, Avion, Messagerie, Facture>>

\* the state values of the calls: the five states and a text that is none
StateValues == Etats \cup {"Inconnu"}

\* validate_creneau_state_transition(current_state, new_state)
ValidateCreneauStateTransition ==
  /\ \E c \in StateValues, n \in StateValues :
       last' = Call("validate_creneau_state_transition",
                    [current_state |-> c, new_state |-> n,
                     result |-> validate_creneau_state_transition(c, n)])
  /\ UNCHANGED <<Creneaux, seq, pc, loc, Avion, Messagerie, Facture>>

NextRules ==
  \/ CreateCreneau(RuleBodies)
  \/ DeleteCreneau
  \/ CalculateCreneauCost
  \/ ValidateCreneauTimeSlot
  \/ ValidateCreneauStateTransition

SpecRules == Init /\ [][NextRules]_vars

-----------------------------------------------------------------------------
(* The claims *)

\* the minutes of a stored row
Start(b) == fromisoformat(b.debut_prevu)
End(b) == fromisoformat(b.fin_prevu)

\* B1.start < B2.end + 90min and B1.end > B2.start - 90min
TooClose(b1, b2) == Start(b1) < End(b2) + 90 /\ End(b1) > Start(b2) - 90

SameInfrastructure(b1, b2) ==
  b1.infrastructure_id # NULL /\ b1.infrastructure_id = b2.infrastructure_id

\* C1: with requests served one at a time, any two distinct stored bookings on
\* the same infrastructure are at least 90 minutes apart.
C1_BookingsNinetyMinutesApart ==
  \A b1 \in Creneaux, b2 \in Creneaux :
    (b1.Id # b2.Id /\ SameInfrastructure(b1, b2)) => ~TooClose(b1, b2)

\* C2: whatever the interleaving of two create_creneau requests on the same
\* infrastructure, once both have been answered the bookings they committed are
\* at least 90 minutes apart.
C2_CreationSerializedPerInfrastructure ==
  (\A w \in Workers : pc[w] = "idle") =>
    \A b1 \in Creneaux, b2 \in Creneaux :
      (b1.Id < b2.Id /\ SameInfrastructure(b1, b2)) => ~TooClose(b2, b1)

\* C3: every stored booking has fin_prevu strictly after debut_prevu.
C3_EndAfterStart == \A b \in Creneaux : End(b) > Start(b)

\* C4: the stored cout_total of every booking is calculate_creneau_cost of its
\* stored infrastructure_id, avitaillement_id, debut_prevu and fin_prevu.
C4_CostOfStoredFields ==
  \A b \in Creneaux :
    b.cout_total = calculate_creneau_cost(b.infrastructure_id, b.avitaillement_id,
                                          b.debut_prevu, b.fin_prevu)

\* a row of Creneaux' whose Id no row of Creneaux has
IsNewRow(b) == b \in Creneaux' /\ \A a \in Creneaux : a.Id # b.Id

\* C5: every booking that enters the store enters it in state "Demandé",
\* whatever etat the request body carries.
C5_CreatedAsDemande ==
  [][\A b \in Creneaux' : IsNewRow(b) => b.etat = "Demandé"]_vars

\* C5 witness: a create_creneau whose body asked for another state was answered
\* 201 and its row is in the store.
C5_Witness ==
  /\ last.op = "create_creneau" /\ last.status = 201
  /\ \E b \in last.body : b.etat # "Demandé"
  /\ \E r \in Creneaux : r.Id = last.id

\* the rows of the transition table of the lifecycle
TransitionTable ==
  { <<"Demandé", "Confirmé">>, <<"Demandé", "Annulé">>,
    <<"Confirmé", "Autorisé">>, <<"Confirmé", "Annulé">>,
    <<"Autorisé", "Achevé">> }

\* C6: every change of the stored state of a booking is a row of the
\* transition table.
C6_StateChangesFollowTable ==
  [][\A a \in Creneaux, b \in Creneaux' :
       (a.Id = b.Id /\ a.etat # b.etat) => <<a.etat, b.etat>> \in TransitionTable]_vars

\* C6 witness: an update_creneau answered 200 has changed the state of the
\* booking it found, and the booking is now "Achevé".
C6_Witness ==
  /\ last.op = "update_creneau" /\ last.status = 200
  /\ \E o \in last.old, r \in Creneaux :
       r.Id = o.Id /\ r.etat # o.etat /\ r.etat = "Achevé"

\* C7: a booking whose stored state is "Achevé" or "Annulé" keeps that state.
C7_TerminalStatesStay ==
  [][\A a \in Creneaux, b \in Creneaux' :
       (a.Id = b.Id /\ a.etat \in {"Achevé", "Annulé"}) => b.etat = a.etat]_vars

\* C7 witness: an update_creneau that proposed another state for a booking in
\* a terminal state has been answered, and the booking is still there.
C7_Witness ==
  /\ last.op = "update_creneau"
  /\ \E o \in last.old, b \in last.body, r \in Creneaux :
       /\ o.etat \in {"Achevé", "Annulé"} /\ b.etat # o.etat
       /\ r.Id = o.Id

\* a row of Creneaux whose Id no row of Creneaux' has
IsDeletedRow(a) == a \in Creneaux /\ \A b \in Creneaux' : b.Id # a.Id

ProbeSlots ==
  { << <<10, 7, 30>>,  <<10, 8, 30>> >>,    \* ends 90 min before SlotA starts
    << <<10, 7, 30>>,  <<10, 8, 31>> >>,    \* ends 89 min before SlotA starts
    << <<10, 10, 30>>, <<10, 10, 45>> >>,   \* inside SlotA
    << <<10, 11, 29>>, <<10, 11, 59>> >>,
    << <<10, 15, 0>>,  <<10, 16, 0>> >>,    \* 90 min after SlotB and SlotC end
    SlotA, SlotB, SlotC }

ProbeInfrastructures == {1, 2, 3}

ProbeExcluded == {NULL, 0, 1, 2}

\* C9: for a candidate with end > start, validate_creneau_time_slot answers
\* not-ok exactly when a stored booking of the same infrastructure, other than
\* the excluded one, has start < ee + 90min and end > es - 90min.
C9_ConflictIffBufferOverlap ==
  \A i \in ProbeInfrastructures, p \in ProbeSlots, x \in ProbeExcluded :
    fromisoformat(p[2]) > fromisoformat(p[1]) =>
      (~validate_creneau_time_slot(Creneaux, i, p[1], p[2], x).ok
         <=> \E e \in Creneaux :
               /\ e.infrastructure_id = i
               /\ e.Id # x
               /\ fromisoformat(p[1]) < End(e) + 90
               /\ fromisoformat(p[2]) > Start(e) - 90)

\* C9 witness: create_creneau has just refused a body with 409, the store
\* holds two bookings of one infrastructure, and the check accepts some
\* candidates there and refuses others, one of them only when no booking is
\* excluded.
C9_Witness ==
  /\ last.op = "create_creneau" /\ last.status = 409
  /\ \E b1 \in Creneaux, b2 \in Creneaux :
       b1.Id # b2.Id /\ b1.infrastructure_id = 1 /\ b2.infrastructure_id = 1
  /\ \E p \in ProbeSlots : validate_creneau_time_slot(Creneaux, 1, p[1], p[2], NULL).ok
  /\ \E p \in ProbeSlots, x \in {1, 2} :
       /\ ~validate_creneau_time_slot(Creneaux, 1, p[1], p[2], NULL).ok
       /\ validate_creneau_time_slot(Creneaux, 1, p[1], p[2], x).ok

\* minutes -> ISO text, the inverse of fromisoformat
isoformat(m) == <<m \div 1440, (m % 1440) \div 60, m % 60>>

\* the candidate of `len` minutes that starts at minute `start`
Candidate(start, len) == <<isoformat(start), isoformat(start + len)>>

\* validate_creneau_time_slot on a candidate, nothing excluded
Accepted(i, c) == validate_creneau_time_slot(Creneaux, i, c[1], c[2], NULL).ok

\* no stored booking of infrastructure i other than e is too close to c
NoOtherConflict(i, c, e) ==
  \A o \in Creneaux :
    (o.infrastructure_id = i /\ o.Id # e.Id) =>
      ~(fromisoformat(c[1]) < End(o) + 90 /\ fromisoformat(c[2]) > Start(o) - 90)

ProbeLengths == {1, 30, 60}

\* C10: a candidate that starts exactly 90 minutes after the end of a stored
\* booking, or ends exactly 90 minutes before its start, and conflicts with no
\* other booking is accepted; moved one minute closer it is refused.
C10_BufferBoundary ==
  \A e \in Creneaux, len \in ProbeLengths :
    e.infrastructure_id # NULL =>
      LET i == e.infrastructure_id
          after == Candidate(End(e) + 90, len)
          after_closer == Candidate(End(e) + 89, len)
          before == Candidate(Start(e) - 90 - len, len)
          before_closer == Candidate(Start(e) - 89 - len, len)
      IN  /\ NoOtherConflict(i, after, e) => Accepted(i, after)
          /\ ~Accepted(i, after_closer)
          /\ NoOtherConflict(i, before, e) => Accepted(i, before)
          /\ ~Accepted(i, before_closer)

\* validate_creneau_time_slot refuses booking b against the bookings of table
Rejects(table, b) ==
  ~validate_creneau_time_slot(table, b.infrastructure_id, b.debut_prevu, b.fin_prevu, NULL).ok

\* a booking of slot p on the infrastructure of booking b
OnSameInfrastructure(b, p) ==
  [b EXCEPT !.Id = b.Id + 1, !.debut_prevu = p[1], !.fin_prevu = p[2]]

\* C11: for a stored booking B1 and any interval B2 on its infrastructure, B2
\* is refused when only B1 exists exactly when B1 is refused when only B2
\* exists, and B1.start < B2.end + 90min and B1.end > B2.start - 90min implies
\* that B2 is refused when B1 exists.
C11_ConflictSymmetric ==
  \A b1 \in Creneaux, p \in ProbeSlots :
    b1.infrastructure_id # NULL =>
      LET b2 == OnSameInfrastructure(b1, p)
      IN  /\ Rejects({b1}, b2) <=> Rejects({b2}, b1)
          /\ TooClose(b1, b2) => Rejects({b1}, b2)

\* intervals that do not end after they start
DegenerateSlots == { SlotZ, SlotR, << <<10, 11, 0>>, <<10, 10, 59>> >> }

\* C12: validate_creneau_time_slot refuses every interval with end <= start,
\* whatever the store holds, the infrastructure and the excluded id; and a
\* create_creneau whose body has end <= start is refused and leaves the store
\* and the AUTOINCREMENT counter as they were.
C12_EndNotAfterStartRefused ==
  /\ [](\A p \in DegenerateSlots, i \in ProbeInfrastructures \cup {NULL}, x \in ProbeExcluded :
          ~validate_creneau_time_slot(Creneaux, i, p[1], p[2], x).ok)
  /\ [][(/\ last'.op = "create_creneau"
         /\ \E b \in last'.body : fromisoformat(b.fin_prevu) <= fromisoformat(b.debut_prevu))
          => /\ last'.status = 409
             /\ Creneaux' = Creneaux
             /\ seq' = seq]_vars

\* C12 witness: the store holds a booking and create_creneau has refused with
\* 409 a body of no length that names no infrastructure, so that no stored
\* booking is compared with it.
C12_Witness ==
  /\ Creneaux # {}
  /\ last.op = "create_creneau" /\ last.status = 409
  /\ \E b \in last.body :
       /\ fromisoformat(b.fin_prevu) = fromisoformat(b.debut_prevu)
       /\ b.infrastructure_id = UNSET

\* the ids a booking can have, and one more
ProbeIds == 1 .. (MaxCreneaux + 1)

\* C13: validate_creneau_time_slot with exclude_creneau_id = X answers as the
\* same call without exclusion on the store from which booking X is removed,
\* for every candidate, infrastructure and booking id X.
C13_ExcludedAsRemoved ==
  \A i \in ProbeInfrastructures, p \in ProbeSlots \cup DegenerateSlots, x \in ProbeIds :
    validate_creneau_time_slot(Creneaux, i, p[1], p[2], x)
      = validate_creneau_time_slot(delete(Creneaux, [Id |-> x]), i, p[1], p[2], NULL)

\* C13 witness: two bookings of infrastructure 1 are stored; some candidate is
\* refused without exclusion and accepted with booking X excluded, and another
\* candidate is still refused with booking X excluded, because of the other
\* booking.
C13_Witness ==
  \E x \in ProbeIds, b \in Creneaux :
    /\ b.Id # x /\ b.infrastructure_id = 1
    /\ \E r \in Creneaux : r.Id = x /\ r.infrastructure_id = 1
    /\ \E p \in ProbeSlots :
         /\ ~validate_creneau_time_slot(Creneaux, 1, p[1], p[2], NULL).ok
         /\ validate_creneau_time_slot(Creneaux, 1, p[1], p[2], x).ok
    /\ \E p \in ProbeSlots :
         /\ ~validate_creneau_time_slot(Creneaux, 1, p[1], p[2], x).ok
         /\ validate_creneau_time_slot({ r \in Creneaux : r.Id = x }, 1, p[1], p[2], NULL).ok

\* the number of money units in one currency unit
MoneyUnits == 1440 * 210

\* num/den currency units in money units, for a den that divides MoneyUnits
Fraction(num, den) == num * (MoneyUnits \div den)

\* the rows with a given Id
RowsOf(table, id) == { r \in table : r.Id = id }

\* the arguments and result of the last call, when it is a call of op
LastCall(op) == IF last.op = op THEN last.body ELSE {}

\* the length of the interval of a call, in minutes
Minutes(c) == fromisoformat(c.fin_prevu) - fromisoformat(c.debut_prevu)

\* the fixed cost of the avitaillement of a call, 0 without a row
FixedCost(c) ==
  IF RowsOf(Avitaillement, c.avitaillement_id) = {} THEN 0
  ELSE (CHOOSE a \in RowsOf(Avitaillement, c.avitaillement_id) : TRUE).cout

\* C14: for an existing infrastructure and end > start, calculate_creneau_cost
\* returns (days/30) x prix_mois if days >= 30, else (days/7) x prix_semaine
\* if days >= 7, else days x prix_jour, with days = minutes/1440 not rounded,
\* plus the cout of the avitaillement when its id has a row; with the rates
\* 150/900/3200 that is 6.25 for 1 hour, (10/7) x 900 for 10 days and
\* (40/30) x 3200 for 40 days.
C14_TieredCost ==
  \A c \in LastCall("calculate_creneau_cost") :
    \A r \in RowsOf(Infrastructure, c.infrastructure_id) :
      Minutes(c) > 0 =>
        /\ c.result - FixedCost(c) =
             IF Minutes(c) >= 30 * 1440
             THEN Fraction(Minutes(c) * r.prix_mois, 30 * 1440)
             ELSE IF Minutes(c) >= 7 * 1440
                  THEN Fraction(Minutes(c) * r.prix_semaine, 7 * 1440)
                  ELSE Fraction(Minutes(c) * r.prix_jour, 1440)
        /\ (r.Id = 1 /\ Minutes(c) = 60) => c.result - FixedCost(c) = Fraction(625, 100)
        /\ (r.Id = 1 /\ Minutes(c) = 10 * 1440) =>
             c.result - FixedCost(c) = Fraction(10 * 900, 7)
        /\ (r.Id = 1 /\ Minutes(c) = 40 * 1440) =>
             c.result - FixedCost(c) = Fraction(40 * 3200, 30)

\* C14 witness: the last call priced 1 hour on infrastructure 1 with the
\* avitaillement 1 and returned 6.25 + 343.42.
C14_Witness ==
  \E c \in LastCall("calculate_creneau_cost") :
    /\ c.infrastructure_id = 1 /\ c.avitaillement_id = 1 /\ Minutes(c) = 60
    /\ c.result = Fraction(625, 100) + Fraction(34342, 100)

\* the tier of a duration: 3 from 30 days, 2 from 7 days, else 1
Tier(minutes) == IF minutes >= 30 * 1440 THEN 3 ELSE IF minutes >= 7 * 1440 THEN 2 ELSE 1

\* C15 as claimed: on the same infrastructure a booking never costs less than
\* a shorter one.
C15_LongerNeverCheaper ==
  \A c \in LastCall("calculate_creneau_cost"), s \in CostSlots :
    (RowsOf(Infrastructure, c.infrastructure_id) # {}
       /\ fromisoformat(s[2]) - fromisoformat(s[1]) <= Minutes(c))
      => calculate_creneau_cost(c.infrastructure_id, c.avitaillement_id, s[1], s[2])
           <= c.result

\* C15 amended: on the same infrastructure a booking never costs less than a
\* shorter one of the same tier, and the first duration of a tier costs less
\* than the last duration of the tier before when the rate of the tier, taken
\* by the day, is lower (900 < 7 x 150, 3200 < (30/7) x 900).
C15_LongerNeverCheaperInTier ==
  \A c \in LastCall("calculate_creneau_cost"), s \in CostSlots :
    LET shorter == fromisoformat(s[2]) - fromisoformat(s[1])
        cost == calculate_creneau_cost(c.infrastructure_id, c.avitaillement_id, s[1], s[2])
    IN  (RowsOf(Infrastructure, c.infrastructure_id) # {} /\ shorter <= Minutes(c)) =>
          /\ Tier(shorter) = Tier(Minutes(c)) => cost <= c.result
          /\ (Minutes(c) \in {7 * 1440, 30 * 1440} /\ shorter = Minutes(c) - 1)
               => cost > c.result

\* C15 witness: the last call priced 30 days less a minute on infrastructure 1
\* and returned more than 10 days cost, in the same tier, and more than 30
\* days cost, in the next.
C15_Witness ==
  \E c \in LastCall("calculate_creneau_cost") :
    /\ c.infrastructure_id = 1 /\ c.avitaillement_id = NULL /\ Minutes(c) = 30 * 1440 - 1
    /\ c.result > calculate_creneau_cost(1, NULL, <<1, 0, 0>>, <<11, 0, 0>>)
    /\ c.result > calculate_creneau_cost(1, NULL, <<1, 0, 0>>, <<31, 0, 0>>)

\* the reference of a call names no row: it is absent, or its id has no row
NoRow(table, id) == id = NULL \/ RowsOf(table, id) = {}

\* C16: calculate_creneau_cost returns a cost for every reference: an
\* infrastructure_id that is absent or has no row contributes 0, an
\* avitaillement_id that has no row contributes 0, and with both absent or
\* without a row the result is exactly 0.
C16_MissingReferencesCostNothing ==
  \A c \in LastCall("calculate_creneau_cost") :
    /\ NoRow(Infrastructure, c.infrastructure_id) => c.result = FixedCost(c)
    /\ NoRow(Avitaillement, c.avitaillement_id) =>
         c.result = calculate_creneau_cost(c.infrastructure_id, NULL,
                                           c.debut_prevu, c.fin_prevu)
    /\ (NoRow(Infrastructure, c.infrastructure_id) /\ NoRow(Avitaillement, c.avitaillement_id))
         => c.result = 0

\* C16 witness: the last call named an infrastructure and an avitaillement
\* that have no row, and returned 0.
C16_Witness ==
  \E c \in LastCall("calculate_creneau_cost") :
    /\ c.infrastructure_id = 3 /\ c.avitaillement_id = 2
    /\ c.result = 0

\* the arguments of a call, without its result
Arguments(c) == [f \in DOMAIN c \ {"result"} |-> c[f]]

RuleCalls == {"calculate_creneau_cost", "validate_creneau_time_slot"}

C18_TransitionOkIffInTable ==
  /\ \A c \in LastCall("validate_creneau_state_transition") :
       /\ c.result.ok <=>
            (c.new_state = c.current_state
               \/ <<c.current_state, c.new_state>> \in TransitionTable)
       /\ ~c.result.ok =>
            \E i \in 1..Len(c.result.msg), j \in 1..Len(c.result.msg) :
              i < j /\ c.result.msg[i] = c.current_state /\ c.result.msg[j] = c.new_state
  /\ ~validate_creneau_state_transition("Demandé", "Autorisé").ok
  /\ ~validate_creneau_state_transition("Achevé", "Confirmé").ok
  /\ validate_creneau_state_transition("Confirmé", "Confirmé").ok

\* C18 witness: the last call proposed "Autorisé" for a booking in "Demandé"
\* and was refused with a message.
C18_Witness ==
  \E c \in LastCall("validate_creneau_state_transition") :
    /\ c.current_state = "Demandé" /\ c.new_state = "Autorisé"
    /\ ~c.result.ok /\ c.result.msg # <<>>

AvionRequests == {"get_avion", "update_avion", "delete_avion"}

\* C19: a read, update or delete of an existing aircraft by a gestionnaire or
\* an agent is never refused for want of authorization, and one by a pilote is
\* refused exactly when the pilote's id is not the pilote_id of the aircraft.
C19_AvionAccess ==
  last.op \in AvionRequests =>
    \A a \in last.old :
      /\ last.user.type \in {"gestionnaire", "agent"} => last.status # 403
      /\ last.user.type = "pilote" => (last.status # 403 <=> last.user.id = a.pilote_id)

\* C20: the read of an existing booking by a pilote succeeds when the
\* pilote_id of the booking is the pilote's id and is refused with 403
\* otherwise, whatever the infrastructure and the state of the booking; the
\* read by an agent or a gestionnaire succeeds; the store is left as it was.
C20_CreneauReadAccess ==
  [][last'.op = "get_creneau" =>
       /\ \A b \in last'.old :
            /\ b \in Creneaux /\ b.Id = last'.id
            /\ last'.user.type = "pilote" =>
                 last'.status = (IF b.pilote_id = last'.user.id THEN 200 ELSE 403)
            /\ last'.user.type \in {"agent", "gestionnaire"} => last'.status = 200
       /\ (last'.old = {}) = (\A b \in Creneaux : b.Id # last'.id)
       /\ Creneaux' = Creneaux]_vars

\* C20 witness: pilote 2 has been refused the read of a confirmed booking of
\* pilote 1, while the store also holds a booking of pilote 2 on another
\* infrastructure.
C20_Witness ==
  /\ last.op = "get_creneau" /\ last.status = 403
  /\ last.user = [id |-> 2, type |-> "pilote"]
  /\ \E b \in last.old : b.pilote_id = 1 /\ b.etat = "Confirmé"
  /\ \E b \in Creneaux, o \in last.old :
       b.pilote_id = 2 /\ b.infrastructure_id # o.infrastructure_id

MessageRequests == {"get_messagerie", "update_messagerie"}

\* C22: a read or an update of an existing message is granted exactly when
\* the caller is a gestionnaire or an agent, or the caller's id is the
\* pilote_id or the agent_id of the message.
C22_MessageAccess ==
  [][last'.op \in MessageRequests =>
       /\ \A m \in last'.old :
            /\ m \in Messagerie /\ m.Id = last'.id
            /\ last'.status # 403 <=>
                 \/ last'.user.type \in {"gestionnaire", "agent"}
                 \/ last'.user.id = m.pilote_id
                 \/ last'.user.id = m.agent_id
            /\ last'.status = 403 => Messagerie' = Messagerie
       /\ (last'.old = {}) = (\A m \in Messagerie : m.Id # last'.id)]_vars

\* C22 witness: pilote 2 has updated a message of which it is the pilote, and
\* the text of the message is the text of the body.
C22_Witness ==
  /\ last.op = "update_messagerie" /\ last.status = 200
  /\ last.user = [id |-> 2, type |-> "pilote"]
  /\ \E o \in last.old, m \in Messagerie, b \in last.body :
       o.pilote_id = 2 /\ o.agent_id # 2 /\ m.Id = o.Id /\ m.contenu = b.contenu

\* C21: the read of an existing invoice is granted exactly when the caller is
\* a gestionnaire or an agent, or a stored booking has the caller's id as
\* pilote_id and the invoice's id as facture_id.
C21_FactureAccess ==
  [][last'.op = "get_facture" =>
       /\ last'.old = { f \in Facture : f.Id = last'.id }
       /\ last'.old = {} => last'.status = 404
       /\ last'.old # {} =>
            /\ last'.status \in {200, 403}
            /\ last'.status = 200 <=>
                 \/ last'.user.type \in {"gestionnaire", "agent"}
                 \/ \E c \in Creneaux :
                      c.pilote_id = last'.user.id /\ c.facture_id = last'.id
       /\ Creneaux' = Creneaux]_vars

\* C21 witness: pilote 2 is refused invoice 1, which is billed on a booking of
\* pilote 1 only, while a booking of pilote 2 is billed on invoice 2.
C21_Witness ==
  /\ last.op = "get_facture" /\ last.status = 403 /\ last.id = 1
  /\ last.user = [id |-> 2, type |-> "pilote"]
  /\ \E c \in Creneaux : c.pilote_id = 1 /\ c.facture_id = 1
  /\ \E c \in Creneaux : c.pilote_id = 2 /\ c.facture_id = 2

\* C30: a booking enters the store only through create_creneau called by a
\* pilote, and its pilote_id is the caller's id whatever pilote_id the body
\* carries; a caller who is not a pilote is answered 403 and stores nothing.
C30_CreatedForTheCaller ==
  [][/\ \A b \in Creneaux' :
          IsNewRow(b) => /\ last'.op = "create_creneau"
                         /\ last'.status = 201
                         /\ last'.user.type = "pilote"
                         /\ b.pilote_id = last'.user.id
     /\ last'.op = "create_creneau" /\ last'.user.type # "pilote" =>
          last'.status = 403 /\ Creneaux' = Creneaux]_vars

\* C30 witness: pilote 2 has created a booking with a body that names pilote 1,
\* and the stored booking is held by pilote 2.
C30_Witness ==
  /\ last.op = "create_creneau" /\ last.status = 201
  /\ last.user = [id |-> 2, type |-> "pilote"]
  /\ \E b \in last.body : b.pilote_id = 1
  /\ \E c \in Creneaux : c.Id = last.id /\ c.pilote_id = 2

\* C24: an update_creneau that proposes a state which is not the stored state
\* and not a transition of the table from it is answered 400, and the stored
\* bookings are what they were.
C24_IllegalTransitionWritesNothing ==
  [][last'.op = "update_creneau" =>
       \A o \in last'.old, b \in last'.body :
         (b.etat # o.etat /\ <<o.etat, b.etat>> \notin TransitionTable) =>
           /\ last'.status = 400
           /\ Creneaux' = Creneaux
           /\ o \in Creneaux']_vars

\* C24 witness: an update_creneau that proposed "Demandé" and a refuelling for
\* a booking stored as "Confirmé" without one was answered 400, and the row it
\* found is in the store.
C24_Witness ==
  /\ last.op = "update_creneau" /\ last.status = 400
  /\ \E o \in last.old, b \in last.body :
       /\ o.etat = "Confirmé" /\ b.etat = "Demandé"
       /\ o.avitaillement_id = NULL /\ b.avitaillement_id = 1
       /\ o \in Creneaux

\* C25: a create_creneau answered 409, and any create_creneau whose body ends
\* when or before it starts or is closer than 90 minutes to a stored booking
\* of its infrastructure, leaves the stored bookings and the AUTOINCREMENT
\* counter as they were.
C25_RejectedCreateWritesNothing ==
  [][last'.op = "create_creneau" =>
       \A b \in last'.body :
         (\/ last'.status = 409
          \/ End(b) <= Start(b)
          \/ \E r \in Creneaux : SameInfrastructure(r, b) /\ TooClose(b, r)) =>
           /\ last'.status # 201
           /\ Creneaux' = Creneaux
           /\ seq' = seq]_vars

\* C25 witness: create_creneau has refused with 409 a body that ends after it
\* starts, 89 minutes after the only stored booking of its infrastructure.
C25_Witness ==
  /\ last.op = "create_creneau" /\ last.status = 409
  /\ Cardinality(Creneaux) = 1 /\ seq = 1
  /\ \E b \in last.body, r \in Creneaux :
       /\ End(b) > Start(b) /\ SameInfrastructure(r, b)
       /\ Start(b) - End(r) = 89

\* C26: a create_creneau whose body is closer than 90 minutes to a stored
\* booking of its infrastructure is answered 409 whatever the state of that
\* booking, "Annulé" and "Achevé" included, and validate_creneau_time_slot
\* refuses the interval of every stored booking on its infrastructure.
C26_EveryStateBlocks ==
  /\ [][last'.op = "create_creneau" =>
          \A b \in last'.body, r \in Creneaux :
            (r.etat \in Etats /\ SameInfrastructure(r, b) /\ End(b) > Start(b)
               /\ TooClose(b, r)) => last'.status = 409]_vars
  /\ [](\A r \in Creneaux :
          (r.infrastructure_id # NULL /\ End(r) > Start(r)) =>
            ~validate_creneau_time_slot(Creneaux, r.infrastructure_id,
                                        r.debut_prevu, r.fin_prevu, NULL).ok)

\* C26 witness: the store holds a cancelled booking and, 90 minutes after it,
\* a completed one on the same infrastructure, and create_creneau has refused
\* with 409 a body 89 minutes after the cancelled one.
C26_Witness ==
  /\ last.op = "create_creneau" /\ last.status = 409
  /\ \E b \in last.body, r1 \in Creneaux, r2 \in Creneaux :
       /\ r1.etat = "Annulé" /\ r2.etat = "Achevé"
       /\ SameInfrastructure(r1, b) /\ SameInfrastructure(r2, b)
       /\ Start(r2) - End(r1) = 90
       /\ Start(b) - End(r1) = 89

\* the number of state changes after which a booking can be in a state at the
\* latest: the length of the longest path of the transition table that ends
\* there
Depth(etat) ==
  CASE etat = "Demandé"  -> 0
    [] etat = "Confirmé" -> 1
    [] etat = "Autorisé" -> 2
    [] etat = "Achevé"   -> 3
    [] etat = "Annulé"   -> 3

\* C28: with requests served one at a time, a booking enters the store at
\* depth 0, every change of its stored state moves it to a state of greater
\* depth, and no depth exceeds 3: a booking changes state at most 3 times and
\* never returns to a state it has left.
C28_LifecycleAcyclic ==
  /\ [][/\ \A b \in Creneaux' : IsNewRow(b) => Depth(b.etat) = 0
        /\ \A a \in Creneaux, b \in Creneaux' :
             (a.Id = b.Id /\ a.etat # b.etat) => Depth(a.etat) < Depth(b.etat)]_vars
  /\ [](\A b \in Creneaux : b.etat \in Etats /\ Depth(b.etat) \in 0..3)

\* C28 witness: an update_creneau has made the third state change of a booking,
\* from "Autorisé" to "Achevé", while the other stored booking is cancelled.
C28_Witness ==
  /\ last.op = "update_creneau" /\ last.status = 200
  /\ \E o \in last.old, r \in Creneaux, c \in Creneaux :
       /\ r.Id = o.Id /\ o.etat = "Autorisé" /\ Depth(r.etat) = 3
       /\ c.Id # r.Id /\ c.etat = "Annulé"

\* C27: whatever the interleaving of two update_creneau requests, every
\* change of the stored state of a booking is a row of the transition table;
\* in particular no booking goes from "Autorisé" to "Annulé".
C27_InterleavedUpdatesFollowTable ==
  [][\A a \in Creneaux, b \in Creneaux' :
       (a.Id = b.Id /\ a.etat # b.etat) =>
         /\ <<a.etat, b.etat>> \in TransitionTable
         /\ <<a.etat, b.etat>> # <<"Autorisé", "Annulé">>]_vars

\* C29: a pilote is granted the read or the update of a message only if the
\* pilote_id of the message is the pilote's id; and when two callers of the
\* same role other than pilote send, one after the other, the same update or
\* delete for the same stored aircraft, both are refused or neither is.
C29_OwnershipWithinRole ==
  [][/\ (last'.op \in MessageRequests /\ last'.user.type = "pilote"
           /\ last'.status # 403) =>
          \A m \in last'.old : m.pilote_id = last'.user.id
     /\ (/\ last'.op \in {"update_avion", "delete_avion"} /\ last.op = last'.op
         /\ last.id = last'.id /\ last.old = last'.old /\ last.old # {}
         /\ last.user.type = last'.user.type /\ last.user.type # "pilote") =>
          ((last.status = 403) <=> (last'.status = 403))]_vars

CreneauRequests == {"get_creneau", "update_creneau", "delete_creneau"}
FactureRequests == {"get_facture", "update_facture", "delete_facture"}
MessagerieRequests == {"get_messagerie", "update_messagerie", "delete_messagerie"}

\* no row of its table has the key the request names
TargetMissing(op, id) ==
  IF op \in AvionRequests THEN \A a \in Avion : a.Immatriculation # id
  ELSE IF op \in CreneauRequests THEN \A c \in Creneaux : c.Id # id
  ELSE IF op \in FactureRequests THEN \A f \in Facture : f.Id # id
  ELSE IF op \in MessagerieRequests THEN \A m \in Messagerie : m.Id # id
  ELSE FALSE

\* the roles a dependency of the endpoint lets in
RolesLetIn(op) ==
  IF op \in {"update_creneau", "delete_creneau", "update_facture", "delete_facture"}
  THEN {"agent", "gestionnaire"}
  ELSE IF op = "delete_messagerie" THEN {"gestionnaire"}
  ELSE {"pilote", "agent", "gestionnaire"}

\* C23 as claimed: a request for an aircraft, a booking, an invoice or a
\* message that is not stored is answered 404, whatever the role of the caller.
C23_NotFoundBeforeForbidden ==
  [][TargetMissing(last'.op, last'.id) => last'.status = 404]_vars

\* C23 as amended: a request for a target that is not stored is answered 404
\* when no role dependency of the endpoint excludes the caller, which is every
\* caller for the reads, for update_avion, delete_avion and update_messagerie;
\* a caller whom a role dependency excludes (update_creneau, delete_creneau,
\* update_facture, delete_facture: neither agent nor gestionnaire;
\* delete_messagerie: not gestionnaire) is answered 403 whether or not the
\* target is stored.  Neither answer changes a table.
C23_NotFoundUnlessRoleExcluded ==
  [][/\ TargetMissing(last'.op, last'.id) =>
          /\ last'.status = (IF last'.user.type \in RolesLetIn(last'.op) THEN 404 ELSE 403)
          /\ UNCHANGED <<Creneaux, Avion, Messagerie, Facture>>
     /\ (last'.op \in AvionRequests \cup CreneauRequests \cup FactureRequests
                        \cup MessagerieRequests
           /\ last'.user.type \notin RolesLetIn(last'.op)) =>
          /\ last'.status = 403
          /\ UNCHANGED <<Creneaux, Avion, Messagerie, Facture>>]_vars

\* C23 witness: a pilote has been answered 403 by update_creneau for a booking
\* that is not stored, while another booking is.
C23_Witness ==
  /\ last.op = "update_creneau" /\ last.status = 403
  /\ last.user.type = "pilote"
  /\ Creneaux # {} /\ \A c \in Creneaux : c.Id # last.id

====
